---- MODULE Spec2Model ----
(***************************************************************************)
(* Model of src/unescape.rs: decoding of HTML character references         *)
(* (unescape_in and the matchers it calls).                                *)
(*                                                                         *)
(* A byte is a number in 0..255 and a byte string is a sequence of bytes.  *)
(* The Peekable iterator over the input is the index `pos` of the byte the *)
(* next iter.next() returns: iter.peek() reads escaped[pos] and is None    *)
(* when pos > Len(escaped).                                                *)
(***************************************************************************)
EXTENDS Integers, Sequences, FiniteSets, TLC

VARIABLES
    escaped,    \* the input bytes of the call
    context,    \* "General" or "Attribute"
    pos,        \* the iterator: index of the next byte iter.next() returns
    buffer,     \* the output buffer of unescape_in
    pc,         \* "loop", "returned" or "panicked"
    result,     \* the returned String (its bytes) once pc = "returned"
    panicSite,  \* which unwrap/expect/panic! fired, "" if none
    trace       \* history: one record per iteration of the driver loop

vars == <<escaped, context, pos, buffer, pc, result, panicSite, trace>>

----------------------------------------------------------------------------
(* Bounds of the model. *)

\* An input is a concatenation of at most MaxTokens tokens.
MaxTokens == 3
\* Numeric references are generated for every value in 0..MaxValue.
MaxValue == 160
\* Numeric references are generated with 0..MaxZeros leading zeros.
MaxZeros == 1

----------------------------------------------------------------------------
(* Byte literals of the source. *)

AMP == 38
HASH == 35
SEMI == 59
EQ == 61
LowerX == 120
UpperX == 88

Context == {"General", "Attribute"}

\* REPLACEMENT_CHAR, U+FFFD
REPLACEMENT_CHAR == 65533

----------------------------------------------------------------------------
(* The generated table: include!(concat!(env!("OUT_DIR"), "/entities.rs")). *)
(* The generated file is not part of the sources; this is a sample of the  *)
(* WHATWG table the spec describes, keeping its shape: keys start with &,  *)
(* with and without ;, and some keys are strict prefixes of others.        *)

ENTITIES ==
    { <<<<38, 108, 116>>, <<60>>>>,                                \* &lt
      <<<<38, 108, 116, 59>>, <<60>>>>,                            \* &lt;
      <<<<38, 116, 105, 109, 101, 115>>, <<195, 151>>>>,           \* &times
      <<<<38, 116, 105, 109, 101, 115, 59>>, <<195, 151>>>>,       \* &times;
      <<<<38, 116, 105, 109, 101, 115, 98, 59>>, <<226, 138, 160>>>> } \* &timesb;

ENTITY_KEYS == { e[1] : e \in ENTITIES }

ENTITY_MIN_LENGTH ==
    CHOOSE n \in { Len(k) : k \in ENTITY_KEYS } :
        \A m \in { Len(k) : k \in ENTITY_KEYS } : n <= m

ENTITY_MAX_LENGTH ==
    CHOOSE n \in { Len(k) : k \in ENTITY_KEYS } :
        \A m \in { Len(k) : k \in ENTITY_KEYS } : n >= m

\* ENTITIES.get(key): Some(expansion) or None
ENTITIES_get(key) ==
    IF key \in ENTITY_KEYS
    THEN [some |-> TRUE, bytes |-> (CHOOSE e \in ENTITIES : e[1] = key)[2]]
    ELSE [some |-> FALSE, bytes |-> <<>>]

----------------------------------------------------------------------------
(* UTF-8: char -> bytes (c.to_string().into()) and String::from_utf8.      *)

\* char::from_u32(c).is_some(), for c below 2^31
IsScalarValue(c) == c \in 0..55295 \/ c \in 57344..1114111

utf8_encode(c) ==
    IF c < 128 THEN <<c>>
    ELSE IF c < 2048 THEN <<192 + (c \div 64), 128 + (c % 64)>>
    ELSE IF c < 65536
         THEN <<224 + (c \div 4096), 128 + ((c \div 64) % 64), 128 + (c % 64)>>
    ELSE <<240 + (c \div 262144), 128 + ((c \div 4096) % 64),
           128 + ((c \div 64) % 64), 128 + (c % 64)>>

\* char_to_vecu8(c): Some(bytes of c)
char_to_vecu8(c) == [some |-> TRUE, bytes |-> utf8_encode(c), panic |-> ""]

\* u32_to_vecu8(c): char::from_u32(c).unwrap() panics on a non-scalar value
u32_to_vecu8(c) ==
    IF IsScalarValue(c)
    THEN [some |-> TRUE, bytes |-> utf8_encode(c), panic |-> ""]
    ELSE [some |-> FALSE, bytes |-> <<>>, panic |-> "u32_to_vecu8"]

IsCont(s, i) == i <= Len(s) /\ s[i] \in 128..191

\* String::from_utf8(bytes).is_ok(): the bytes from index i on are valid UTF-8
RECURSIVE from_utf8_ok(_, _)
from_utf8_ok(s, i) ==
    IF i > Len(s) THEN TRUE
    ELSE LET b == s[i] IN
         IF b < 128 THEN from_utf8_ok(s, i + 1)
         ELSE IF b \in 194..223
              THEN IsCont(s, i + 1) /\ from_utf8_ok(s, i + 2)
         ELSE IF b \in 224..239
              THEN /\ i + 1 <= Len(s)
                   /\ s[i + 1] \in (IF b = 224 THEN 160..191
                                    ELSE IF b = 237 THEN 128..159
                                    ELSE 128..191)
                   /\ IsCont(s, i + 2)
                   /\ from_utf8_ok(s, i + 3)
         ELSE IF b \in 240..244
              THEN /\ i + 1 <= Len(s)
                   /\ s[i + 1] \in (IF b = 240 THEN 144..191
                                    ELSE IF b = 244 THEN 128..143
                                    ELSE 128..191)
                   /\ IsCont(s, i + 2)
                   /\ IsCont(s, i + 3)
                   /\ from_utf8_ok(s, i + 4)
         ELSE FALSE

----------------------------------------------------------------------------
(* consumer!: the three consume-while helpers.                             *)

\* Mutant: the alphanumeric class starts at & instead of at 0.
Accepts_from_ampersand(class, c) ==
    CASE class = "decimal" -> c \in 48..57
      [] class = "hexadecimal" -> c \in 48..57 \/ c \in 97..102 \/ c \in 65..70
      [] class = "alphanumeric" -> c \in 38..57 \/ c \in 97..122 \/ c \in 65..90

Accepts(class, c) ==
    CASE class = "decimal" -> c \in 48..57
      [] class = "hexadecimal" -> c \in 48..57 \/ c \in 97..102 \/ c \in 65..70
      [] class = "alphanumeric" -> c \in 48..57 \/ c \in 97..122 \/ c \in 65..90

\* Mutant: the byte that ends the run is consumed too (next() for peek()).
RECURSIVE consumer_takes_last(_, _, _, _)
consumer_takes_last(class, s, p, buf) ==
    IF p > Len(s) THEN [buffer |-> buf, pos |-> p]
    ELSE IF Accepts(class, s[p])
    THEN consumer_takes_last(class, s, p + 1, Append(buf, s[p]))
    ELSE [buffer |-> buf, pos |-> p + 1]

\* while let Some(c) = iter.peek() { match **c { accept => push(next), _ => return } }
RECURSIVE consumer(_, _, _, _)
consumer(class, s, p, buf) ==
    IF p <= Len(s) /\ Accepts(class, s[p])
    THEN consumer(class, s, p + 1, Append(buf, s[p]))
    ELSE [buffer |-> buf, pos |-> p]

consume_decimal(s, p) == consumer("decimal", s, p, <<>>)

consume_hexadecimal(s, p) == consumer("hexadecimal", s, p, <<>>)

consume_alphanumeric(s, p) == consumer("alphanumeric", s, p, <<>>)

----------------------------------------------------------------------------
(* u32::from_str_radix. A u32 is the pair hi * 65536 + lo of 16-bit halves, *)
(* so that the checked multiply and add keep their 32-bit width.           *)

\* char::to_digit(radix): the digit's value, or -1 when it is none
to_digit(c, radix) ==
    LET v == IF c \in 48..57 THEN c - 48
             ELSE IF c \in 97..122 THEN c - 87
             ELSE IF c \in 65..90 THEN c - 55
             ELSE radix
    IN IF v < radix THEN v ELSE -1

ParseResult(kind, hi, lo) == [kind |-> kind, hi |-> hi, lo |-> lo]

RECURSIVE from_str_radix_digits(_, _, _, _, _)
from_str_radix_digits(s, i, radix, hi, lo) ==
    IF i > Len(s) THEN ParseResult("Ok", hi, lo)
    ELSE LET d == to_digit(s[i], radix) IN
         IF d < 0 THEN ParseResult("InvalidDigit", 0, 0)
         ELSE LET l == lo * radix + d
                  h == hi * radix + (l \div 65536)
              IN IF h > 65535 THEN ParseResult("PosOverflow", 0, 0)
                 ELSE from_str_radix_digits(s, i + 1, radix, h, l % 65536)

from_str_radix(s, radix) ==
    IF Len(s) = 0 THEN ParseResult("Empty", 0, 0)
    ELSE from_str_radix_digits(s, 1, radix, 0, 0)

----------------------------------------------------------------------------
(* correct_numeric_entity and its predicates.                              *)

None == [some |-> FALSE, bytes |-> <<>>, panic |-> ""]

\* c > 0x10FFFF
is_outside_range(c) == c.hi > 16

\* Mutant: the range taken as half-open, 0xD800..0xDFFF.
is_surrogate_half_open(c) == c.hi = 0 /\ c.lo \in 55296..57342

\* (0xD800..=0xDFFF).contains(c)
is_surrogate(c) == c.hi = 0 /\ c.lo \in 55296..57343

\* Mutant: the control-character exceptions are missing.
correct_numeric_entity_no_exceptions(number) ==
    IF number.hi = 0 /\ number.lo = 0 THEN char_to_vecu8(REPLACEMENT_CHAR)
    ELSE IF is_outside_range(number) THEN char_to_vecu8(REPLACEMENT_CHAR)
    ELSE IF is_surrogate(number) THEN char_to_vecu8(REPLACEMENT_CHAR)
    ELSE LET c == number.hi * 65536 + number.lo IN
         IF IsScalarValue(c) THEN char_to_vecu8(c) ELSE None

correct_numeric_entity(number) ==
    IF number.hi = 0 /\ number.lo = 0 THEN char_to_vecu8(REPLACEMENT_CHAR)
    ELSE IF is_outside_range(number) THEN char_to_vecu8(REPLACEMENT_CHAR)
    ELSE IF is_surrogate(number) THEN char_to_vecu8(REPLACEMENT_CHAR)
    ELSE LET c == number.hi * 65536 + number.lo IN
         CASE c = 128 -> u32_to_vecu8(8364)    \* 0x80 => 0x20AC
           [] c = 130 -> u32_to_vecu8(8218)    \* 0x82 => 0x201A
           [] c = 131 -> u32_to_vecu8(402)     \* 0x83 => 0x0192
           [] c = 132 -> u32_to_vecu8(8222)    \* 0x84 => 0x201E
           [] c = 133 -> u32_to_vecu8(8230)    \* 0x85 => 0x2026
           [] c = 134 -> u32_to_vecu8(8224)    \* 0x86 => 0x2020
           [] c = 135 -> u32_to_vecu8(8225)    \* 0x87 => 0x2021
           [] c = 136 -> u32_to_vecu8(710)     \* 0x88 => 0x02C6
           [] c = 137 -> u32_to_vecu8(8240)    \* 0x89 => 0x2030
           [] c = 138 -> u32_to_vecu8(352)     \* 0x8A => 0x0160
           [] c = 139 -> u32_to_vecu8(8249)    \* 0x8B => 0x2039
           [] c = 140 -> u32_to_vecu8(338)     \* 0x8C => 0x0152
           [] c = 142 -> u32_to_vecu8(381)     \* 0x8E => 0x017D
           [] c = 145 -> u32_to_vecu8(8216)    \* 0x91 => 0x2018
           [] c = 146 -> u32_to_vecu8(8217)    \* 0x92 => 0x2019
           [] c = 147 -> u32_to_vecu8(8220)    \* 0x93 => 0x201C
           [] c = 148 -> u32_to_vecu8(8221)    \* 0x94 => 0x201D
           [] c = 149 -> u32_to_vecu8(8226)    \* 0x95 => 0x2022
           [] c = 150 -> u32_to_vecu8(8211)    \* 0x96 => 0x2013
           [] c = 151 -> u32_to_vecu8(8212)    \* 0x97 => 0x2014
           [] c = 152 -> u32_to_vecu8(732)     \* 0x98 => 0x02DC
           [] c = 153 -> u32_to_vecu8(8482)    \* 0x99 => 0x2122
           [] c = 154 -> u32_to_vecu8(353)     \* 0x9A => 0x0161
           [] c = 155 -> u32_to_vecu8(8250)    \* 0x9B => 0x203A
           [] c = 156 -> u32_to_vecu8(339)     \* 0x9C => 0x0153
           [] c = 158 -> u32_to_vecu8(382)     \* 0x9E => 0x017E
           [] c = 159 -> u32_to_vecu8(376)     \* 0x9F => 0x0178
           [] OTHER -> IF IsScalarValue(c) THEN char_to_vecu8(c) ELSE None

----------------------------------------------------------------------------
(* match_numeric_entity.                                                   *)

\* What a matcher hands back: the bytes it returns, the iterator after it,
\* and (for the history) the literal bytes it gathered, the digit run it
\* parsed, where its consume-while helper stopped, and the panic it hit.
MatchResult(kind, out, p, cand, digits, radix, runEnd, eqExit, panic) ==
    [kind |-> kind, out |-> out, pos |-> p, cand |-> cand, digits |-> digits,
     radix |-> radix, runEnd |-> runEnd, eqExit |-> eqExit, panic |-> panic]

\* Mutant: only the lower-case x marks a hexadecimal reference.
IsHexMarkerLowerOnly(c) == c = LowerX

\* Some(&b'x') | Some(&b'X')
IsHexMarker(c) == c = LowerX \/ c = UpperX

\* Mutant: an empty digit run is taken for the number 0.
number_outcome_empty_is_zero(number, best_expansion) ==
    CASE number.kind = "Ok" ->
           LET expansion == correct_numeric_entity(number) IN
           IF expansion.some THEN [out |-> expansion.bytes, panic |-> ""]
           ELSE [out |-> best_expansion, panic |-> ""]
      [] OTHER ->
           [out |-> char_to_vecu8(REPLACEMENT_CHAR).bytes, panic |-> ""]

\* match number { Ok(..) => .., Err(error) => match error.kind() { .. } }; best_expansion
number_outcome(number, best_expansion) ==
    CASE number.kind = "Ok" ->
           LET expansion == correct_numeric_entity(number) IN
           IF expansion.panic # "" THEN [out |-> <<>>, panic |-> expansion.panic]
           ELSE IF expansion.some THEN [out |-> expansion.bytes, panic |-> ""]
           ELSE [out |-> best_expansion, panic |-> ""]
      [] number.kind = "PosOverflow" ->
           [out |-> char_to_vecu8(REPLACEMENT_CHAR).bytes, panic |-> ""]
      [] number.kind = "Empty" ->
           [out |-> best_expansion, panic |-> ""]
      [] OTHER ->
           [out |-> <<>>, panic |-> "error parsing number in numeric entity"]

\* s[p] is the byte the caller peeked (the #).
match_numeric_entity(s, p) ==
    IF p > Len(s) \/ s[p] # HASH
    THEN MatchResult("numeric", <<>>, p, <<>>, <<>>, 0, p, FALSE, "PEEK_MATCH_ERROR")
    ELSE
    LET p1 == p + 1
        best0 == <<AMP, HASH>>
    IN
    IF p1 > Len(s)
    THEN MatchResult("numeric", best0, p1, best0, <<>>, 0, p1, FALSE, "")
    ELSE
    LET hex == IsHexMarker(s[p1])
        radix == IF hex THEN 16 ELSE 10
        p2 == IF hex THEN p1 + 1 ELSE p1
        best1 == IF hex THEN Append(best0, s[p1]) ELSE best0
        run == IF hex THEN consume_hexadecimal(s, p2) ELSE consume_decimal(s, p2)
        best2 == best1 \o run.buffer
        utf8 == from_utf8_ok(run.buffer, 1)
        number == from_str_radix(run.buffer, radix)
        semi == run.pos <= Len(s) /\ s[run.pos] = SEMI
        best3 == IF semi THEN Append(best2, s[run.pos]) ELSE best2
        p3 == IF semi THEN run.pos + 1 ELSE run.pos
        outcome == number_outcome(number, best3)
    IN
    IF ~utf8
    THEN MatchResult("numeric", <<>>, run.pos, best2, run.buffer, radix, run.pos,
                     FALSE, "from_utf8(digits)")
    ELSE MatchResult("numeric", outcome.out, p3, best3, run.buffer, radix, run.pos,
                     FALSE, outcome.panic)

----------------------------------------------------------------------------
(* match_entity.                                                           *)

\* Mutant: the = arm is missing.
peek_terminator_no_eq(s, p, ctx) ==
    IF p <= Len(s) /\ s[p] = SEMI THEN "semi" ELSE "other"

\* match iter.peek() { Some(&b';') => .., Some(b'=') if Attribute => .., _ => .. }
peek_terminator(s, p, ctx) ==
    IF p <= Len(s) /\ s[p] = SEMI THEN "semi"
    ELSE IF p <= Len(s) /\ s[p] = EQ /\ ctx = "Attribute" THEN "eq"
    ELSE "other"

\* Mutant: the lengths are tried shortest first.
for_check_len_ascending(candidate, max_len) ==
    LET hits == { n \in ENTITY_MIN_LENGTH..max_len :
                    ENTITIES_get(SubSeq(candidate, 1, n)).some }
    IN IF hits = {} THEN [some |-> FALSE, bytes |-> <<>>]
       ELSE LET n == CHOOSE n \in hits : \A m \in hits : n <= m IN
            [some |-> TRUE,
             bytes |-> ENTITIES_get(SubSeq(candidate, 1, n)).bytes
                       \o SubSeq(candidate, n + 1, Len(candidate))]

\* for check_len in (ENTITY_MIN_LENGTH..=max_len).rev() { .. return result; }
\* from check_len downward: Some(expansion + rest of candidate) or None
RECURSIVE for_check_len(_, _)
for_check_len(candidate, check_len) ==
    IF check_len < ENTITY_MIN_LENGTH THEN [some |-> FALSE, bytes |-> <<>>]
    ELSE LET expansion == ENTITIES_get(SubSeq(candidate, 1, check_len)) IN
         IF expansion.some
         THEN [some |-> TRUE,
               bytes |-> expansion.bytes
                         \o SubSeq(candidate, check_len + 1, Len(candidate))]
         ELSE for_check_len(candidate, check_len - 1)

Min(a, b) == IF a <= b THEN a ELSE b

\* Mutant: the longest-prefix search is done in Attribute context too.
lookup_candidate_prefix_always(candidate, ctx) ==
    IF Len(candidate) < ENTITY_MIN_LENGTH THEN candidate
    ELSE LET max_len == Min(Len(candidate), ENTITY_MAX_LENGTH)
             found == for_check_len(candidate, max_len)
         IN IF found.some THEN found.bytes ELSE candidate

\* the table lookup on the finished candidate
lookup_candidate(candidate, ctx) ==
    IF Len(candidate) < ENTITY_MIN_LENGTH THEN candidate
    ELSE IF ctx = "Attribute"
    THEN LET expansion == ENTITIES_get(candidate) IN
         IF expansion.some THEN expansion.bytes ELSE candidate
    ELSE LET max_len == Min(Len(candidate), ENTITY_MAX_LENGTH)
             found == for_check_len(candidate, max_len)
         IN IF found.some THEN found.bytes ELSE candidate

\* p is the iterator after the driver took the &.
match_entity(s, p, ctx) ==
    IF p <= Len(s) /\ s[p] = HASH THEN match_numeric_entity(s, p)
    ELSE
    LET run == consume_alphanumeric(s, p)
        candidate0 == <<AMP>> \o run.buffer
        term == peek_terminator(s, run.pos, ctx)
    IN
    IF term = "eq"
    THEN MatchResult("named", candidate0, run.pos, candidate0, <<>>, 0, run.pos,
                     TRUE, "")
    ELSE
    LET candidate == IF term = "semi" THEN Append(candidate0, s[run.pos])
                     ELSE candidate0
        p1 == IF term = "semi" THEN run.pos + 1 ELSE run.pos
    IN MatchResult("named", lookup_candidate(candidate, ctx), p1, candidate,
                   <<>>, 0, run.pos, FALSE, "")

----------------------------------------------------------------------------
(* The inputs of the model.                                                *)

RECURSIVE Concat(_)
Concat(ss) == IF Len(ss) = 0 THEN <<>> ELSE Head(ss) \o Concat(Tail(ss))

RECURSIVE Zeros(_)
Zeros(n) == IF n = 0 THEN <<>> ELSE <<48>> \o Zeros(n - 1)

DigitChar(d, upper) ==
    IF d < 10 THEN 48 + d ELSE IF upper THEN 55 + d ELSE 87 + d

RECURSIVE ToDigits(_, _, _)
ToDigits(v, radix, upper) ==
    IF v < radix THEN <<DigitChar(v, upper)>>
    ELSE Append(ToDigits(v \div radix, radix, upper), DigitChar(v % radix, upper))

Tokens ==
    { <<AMP>>, <<SEMI>>, <<EQ>>, <<HASH>>,
      <<AMP, 116, 105, 109, 101, 115>>,       \* &times
      <<AMP, 116, 105, 109, 101, 115, 98>>,   \* &timesb
      <<AMP, 108, 116>>,                      \* &lt
      <<98>>,                                 \* b
      <<255>>,                                \* a byte that is no UTF-8
      <<226, 128, 162>> }                     \* U+2022 in UTF-8

TokenInputs ==
    { Concat(ts) : ts \in UNION { [1..n -> Tokens] : n \in 0..MaxTokens } }

\* Values at the edges of the correction rules.
EdgeValues ==
    { 8226, 55295, 55296, 57343, 57344, 65533, 65534, 1114111, 1114112, 1114113 }

Values == (0..MaxValue) \cup EdgeValues

\* Digit runs that do not fit, or only just fit, 32 bits.
WideRuns ==
    { <<52, 50, 57, 52, 57, 54, 55, 50, 57, 53>>,   \* 4294967295
      <<52, 50, 57, 52, 57, 54, 55, 50, 57, 54>>,   \* 4294967296
      <<70, 70, 70, 70, 70, 70, 70, 70>>,           \* FFFFFFFF
      <<49, 48, 48, 48, 48, 48, 48, 48, 48>>,       \* 100000000
      <<49, 49>> \o Zeros(9),                       \* 11 digits
      <<49, 49>> \o Zeros(38) }                     \* 40 digits

Runs ==
    { ToDigits(v, 10, FALSE) : v \in Values }
        \cup { ToDigits(v, 16, u) : v \in Values, u \in BOOLEAN }
        \cup WideRuns
        \cup { <<>>, <<90>> }

NumericInputs ==
    { <<AMP, HASH>> \o x \o Zeros(z) \o run \o suffix :
        x \in { <<>>, <<LowerX>>, <<UpperX>> },
        z \in 0..MaxZeros,
        run \in Runs,
        suffix \in { <<>>, <<SEMI>>, <<122>> } }

Inputs == TokenInputs \cup NumericInputs

----------------------------------------------------------------------------
(* unescape_in: the driver loop, one action per branch.                    *)

StepRecord(kind, start, end, cand, exp, digits, radix, runEnd, eqExit) ==
    [kind |-> kind, start |-> start, end |-> end, cand |-> cand, exp |-> exp,
     digits |-> digits, radix |-> radix, runEnd |-> runEnd, eqExit |-> eqExit]

Init ==
    /\ escaped \in Inputs
    /\ context \in Context
    /\ pos = 1
    /\ buffer = <<>>
    /\ pc = "loop"
    /\ result = <<>>
    /\ panicSite = ""
    /\ trace = <<>>

\* Some(c) = iter.next(), *c != b'&': buffer.push(*c)
LoopPush ==
    /\ pc = "loop"
    /\ pos <= Len(escaped)
    /\ escaped[pos] # AMP
    /\ buffer' = Append(buffer, escaped[pos])
    /\ pos' = pos + 1
    /\ trace' = Append(trace, StepRecord("byte", pos, pos + 1, <<escaped[pos]>>,
                                         <<escaped[pos]>>, <<>>, 0, pos + 1, FALSE))
    /\ UNCHANGED <<escaped, context, pc, result, panicSite>>

\* Some(c) = iter.next(), *c == b'&': buffer.append(&mut match_entity(..))
LoopEntity ==
    /\ pc = "loop"
    /\ pos <= Len(escaped)
    /\ escaped[pos] = AMP
    /\ LET m == match_entity(escaped, pos + 1, context) IN
       /\ pos' = m.pos
       /\ trace' = Append(trace, StepRecord(m.kind, pos, m.pos, m.cand, m.out,
                                            m.digits, m.radix, m.runEnd, m.eqExit))
       /\ IF m.panic = ""
          THEN /\ buffer' = buffer \o m.out
               /\ UNCHANGED <<pc, panicSite>>
          ELSE /\ pc' = "panicked"
               /\ panicSite' = m.panic
               /\ UNCHANGED buffer
    /\ UNCHANGED <<escaped, context, result>>

\* iter.next() is None: String::from_utf8(buffer).unwrap()
LoopEnd ==
    /\ pc = "loop"
    /\ pos > Len(escaped)
    /\ IF from_utf8_ok(buffer, 1)
       THEN /\ pc' = "returned"
            /\ result' = buffer
            /\ UNCHANGED panicSite
       ELSE /\ pc' = "panicked"
            /\ panicSite' = "from_utf8(buffer)"
            /\ UNCHANGED result
    /\ UNCHANGED <<escaped, context, pos, buffer, trace>>

Next == LoopPush \/ LoopEntity \/ LoopEnd

Spec == Init /\ [][Next]_vars

----------------------------------------------------------------------------
(* What the claims speak of, read off the input alone.                     *)

AlnumBytes == (48..57) \cup (65..90) \cup (97..122)
DecBytes == 48..57
HexBytes == (48..57) \cup (65..70) \cup (97..102)

\* The end of the maximal run of bytes of S that starts at index i: the
\* index of the first byte not in S, or Len(escaped) + 1.
RunEnd(i, S) ==
    CHOOSE e \in i..(Len(escaped) + 1) :
        /\ \A j \in i..(e - 1) : escaped[j] \in S
        /\ e = Len(escaped) + 1 \/ escaped[e] \notin S

\* Index a holds an &. The end (exclusive) of a run and of a ; right after it.
WithSemi(e) == IF e <= Len(escaped) /\ escaped[e] = SEMI THEN e + 1 ELSE e

\* The named candidate at a: the &, the alphanumeric run, a ; right after.
CandidateAt(a) == SubSeq(escaped, a, WithSemi(RunEnd(a + 1, AlnumBytes)) - 1)

\* The byte right after the alphanumeric run at a is =.
FollowedByEq(a) ==
    LET e == RunEnd(a + 1, AlnumBytes) IN e <= Len(escaped) /\ escaped[e] = EQ

NumIsHex(a) == a + 2 <= Len(escaped) /\ escaped[a + 2] \in {120, 88}
NumRadix(a) == IF NumIsHex(a) THEN 16 ELSE 10
NumRunStart(a) == IF NumIsHex(a) THEN a + 3 ELSE a + 2
NumRunEnd(a) ==
    RunEnd(NumRunStart(a), IF NumIsHex(a) THEN HexBytes ELSE DecBytes)
\* The digit run of the numeric reference at a, and the reference's bytes.
NumRun(a) == SubSeq(escaped, NumRunStart(a), NumRunEnd(a) - 1)
NumLiteral(a) == SubSeq(escaped, a, WithSemi(NumRunEnd(a)) - 1)

\* Every value above 0x10FFFF counts as TooLarge.
TooLarge == 1114111 + 1

DigitValue(b) ==
    IF b \in 48..57 THEN b - 48 ELSE IF b \in 97..102 THEN b - 87 ELSE b - 55

RECURSIVE RunValue(_, _, _)
RunValue(digits, radix, acc) ==
    IF Len(digits) = 0 THEN acc
    ELSE LET v == acc * radix + DigitValue(Head(digits)) IN
         RunValue(Tail(digits), radix, IF v >= TooLarge THEN TooLarge ELSE v)

\* The value of the digit run of the numeric reference at a.
NumValue(a) == RunValue(NumRun(a), NumRadix(a), 0)

IsPrefix(k, c) == Len(k) <= Len(c) /\ SubSeq(c, 1, Len(k)) = k
KeyPrefixes(c) == { k \in ENTITY_KEYS : IsPrefix(k, c) }
LongestKeyPrefix(c) ==
    CHOOSE k \in KeyPrefixes(c) : \A k2 \in KeyPrefixes(c) : Len(k2) <= Len(k)
ExpansionOf(k) == (CHOOSE e \in ENTITIES : e[1] = k)[2]
\* The longest-prefix expansion of a candidate that some key is a prefix of.
LongestPrefixExpansion(c) ==
    ExpansionOf(LongestKeyPrefix(c))
        \o SubSeq(c, Len(LongestKeyPrefix(c)) + 1, Len(c))

ReplacementBytes == <<239, 191, 189>>

HasLast == Len(trace) > 0
Last == trace[Len(trace)]
LastIsNamed == HasLast /\ Last.kind = "named"
LastIsNumeric == HasLast /\ Last.kind = "numeric"

----------------------------------------------------------------------------
(* C1 *)

\* C1: unescape_in never fails: for every input byte sequence, valid UTF-8
\* or not, and in both contexts, no unwrap, expect or panic! is reached.
C1_NeverPanics == pc # "panicked"

\* The one panic that is reached is the unwrap of String::from_utf8(buffer),
\* and it is reached exactly when the input is not valid UTF-8.
PanicOnlyAtOutputUnwrap ==
    /\ pc = "panicked" => panicSite = "from_utf8(buffer)"
    /\ pc = "panicked" => ~from_utf8_ok(escaped, 1)
    /\ pc = "returned" => from_utf8_ok(escaped, 1)

----------------------------------------------------------------------------
(* C2 *)

\* C2: in General context a named candidate at least as long as the shortest
\* key, of which some key is a prefix, contributes the expansion of the
\* longest key that is a prefix of it, followed by the rest of the candidate
\* unchanged; the reference consumes exactly the candidate.
C2_LongestPrefix ==
    (context = "General" /\ LastIsNamed) =>
        LET c == CandidateAt(Last.start) IN
        (Len(c) >= ENTITY_MIN_LENGTH /\ KeyPrefixes(c) # {}) =>
            /\ Last.exp = LongestPrefixExpansion(c)
            /\ Last.end = Last.start + Len(c)
            /\ buffer = SubSeq(buffer, 1, Len(buffer) - Len(Last.exp)) \o Last.exp

\* &timesb; in General context: &times and &timesb; both are prefixes, and
\* the longer one is expanded.
C2_Witness ==
    /\ context = "General"
    /\ LastIsNamed
    /\ CandidateAt(Last.start) = <<38, 116, 105, 109, 101, 115, 98, 59>>
    /\ Cardinality(KeyPrefixes(CandidateAt(Last.start))) >= 2
    /\ Last.exp = <<226, 138, 160>>

----------------------------------------------------------------------------
(* C3 *)

\* C3: in Attribute context a named candidate is expanded only when the
\* whole candidate is exactly a key, and is output verbatim otherwise; a key
\* without ; followed by an alphanumeric byte is not expanded; a candidate
\* that is a key and is not followed by = is expanded as in General context.
C3_AttributeExact ==
    (context = "Attribute" /\ LastIsNamed) =>
        LET c == CandidateAt(Last.start) IN
        /\ Last.end = Last.start + Len(c)
        /\ Last.exp # c => c \in ENTITY_KEYS
        /\ c \notin ENTITY_KEYS => Last.exp = c
        /\ (\E k \in KeyPrefixes(c) : Len(k) < Len(c) /\ c[Len(c)] # SEMI)
              => Last.exp = c
        /\ (c \in ENTITY_KEYS /\ ~FollowedByEq(Last.start))
              => /\ Last.exp = ExpansionOf(c)
                 /\ Last.exp = LongestPrefixExpansion(c)

\* &timesb in Attribute context: the key &times is followed by b, and the
\* candidate stays as it is.
C3_Witness ==
    /\ context = "Attribute"
    /\ LastIsNamed
    /\ CandidateAt(Last.start) = <<38, 116, 105, 109, 101, 115, 98>>
    /\ Last.exp = <<38, 116, 105, 109, 101, 115, 98>>
    /\ pc = "loop"

----------------------------------------------------------------------------
(* C4 *)

\* The step before the last one.
HasPrev == Len(trace) > 1
Prev == trace[Len(trace) - 1]

\* C4: in Attribute context, when the byte right after the alphanumeric run
\* is =, the candidate is output verbatim even if it is a key, the = is
\* left unconsumed and the next iteration copies it; in General context the
\* same candidate is expanded by the longest-prefix rule.
C4_AttributeEquals ==
    /\ (LastIsNamed /\ FollowedByEq(Last.start)) =>
          LET c == CandidateAt(Last.start) IN
          /\ Last.end = Last.start + Len(c)
          /\ escaped[Last.end] = EQ
          /\ pos = Last.end
          /\ context = "Attribute" => Last.exp = c
          /\ (context = "General" /\ Len(c) >= ENTITY_MIN_LENGTH
                /\ KeyPrefixes(c) # {}) => Last.exp = LongestPrefixExpansion(c)
    /\ (HasPrev /\ Prev.kind = "named" /\ FollowedByEq(Prev.start)) =>
          /\ Last.kind = "byte"
          /\ Last.start = Prev.end
          /\ Last.exp = <<EQ>>
          /\ context = "Attribute" =>
                buffer = SubSeq(buffer, 1, Len(buffer) - Len(CandidateAt(Prev.start)) - 1)
                            \o CandidateAt(Prev.start) \o <<EQ>>

\* &times= in Attribute context, after the = has been copied.
C4_Witness ==
    /\ context = "Attribute"
    /\ HasPrev
    /\ Prev.kind = "named"
    /\ CandidateAt(Prev.start) = <<38, 116, 105, 109, 101, 115>>
    /\ FollowedByEq(Prev.start)
    /\ Prev.exp = <<38, 116, 105, 109, 101, 115>>
    /\ Last.exp = <<61>>

----------------------------------------------------------------------------
(* C5 *)

\* The values the correction rules replace: 0, the surrogates, and what is
\* above 0x10FFFF (a run too large for 32 bits included).
IsReplacedValue(v) == v = 0 \/ v \in 55296..57343 \/ v >= TooLarge

\* C5: in either context a numeric reference with a non-empty digit run
\* whose value is 0, a surrogate, above 0x10FFFF or too large for 32 bits
\* contributes exactly U+FFFD, with or without a trailing ;.
C5_Replacement ==
    (LastIsNumeric /\ Len(NumRun(Last.start)) > 0
        /\ IsReplacedValue(NumValue(Last.start))) =>
        /\ Last.exp = ReplacementBytes
        /\ Last.end = Last.start + Len(NumLiteral(Last.start))
        /\ buffer = SubSeq(buffer, 1, Len(buffer) - 3) \o ReplacementBytes

\* A hexadecimal run of 40 digits without ; at the end of the input.
C5_Witness ==
    /\ LastIsNumeric
    /\ Len(NumRun(Last.start)) >= 40
    /\ NumIsHex(Last.start)
    /\ NumValue(Last.start) = TooLarge
    /\ Last.end = Len(escaped) + 1
    /\ escaped[Len(escaped)] # SEMI
    /\ Last.exp = ReplacementBytes

----------------------------------------------------------------------------
(* C6 *)

U32(v) == [kind |-> "Ok", hi |-> v \div 65536, lo |-> v % 65536]

\* The values of 0x80..=0x9F that the claim excepts, and the ones the table
\* of correct_numeric_entity leaves out.
ClaimedUnmapped == {141, 143, 144, 157}
Unmapped == {129, 141, 143, 144, 157}

\* The values of 0x80..=0x9F that correct_numeric_entity sends elsewhere.
Remapped == { w \in 128..159 : correct_numeric_entity(U32(w)).bytes # utf8_encode(w) }

\* C6 as stated: every numeric reference with a value in 0x80..=0x9F other
\* than 0x8D, 0x8F, 0x90 and 0x9D is remapped to a code point different
\* from the value.
C6_AsStated ==
    (LastIsNumeric /\ Len(NumRun(Last.start)) > 0
        /\ NumValue(Last.start) \in (128..159) \ ClaimedUnmapped) =>
        Last.exp # utf8_encode(NumValue(Last.start))

\* C6, amended: every numeric reference with a value in 0x80..=0x9F other
\* than 0x81, 0x8D, 0x8F, 0x90 and 0x9D is remapped to a code point different
\* from the value; the remapped values number 27 and go to pairwise distinct
\* code points (0x95 to U+2022); 0x81, 0x8D, 0x8F, 0x90 and 0x9D stay.
C6_LegacyRemap ==
    (LastIsNumeric /\ Len(NumRun(Last.start)) > 0
        /\ NumValue(Last.start) \in 128..159) =>
        LET v == NumValue(Last.start) IN
        /\ v \in Unmapped => Last.exp = utf8_encode(v)
        /\ v \notin Unmapped =>
              /\ Last.exp # utf8_encode(v)
              /\ \E cp \in 129..65535 : cp # v /\ Last.exp = utf8_encode(cp)
              /\ \A w \in (128..159) \ (Unmapped \cup {v}) :
                    correct_numeric_entity(U32(w)).bytes # Last.exp
        /\ v = 149 => Last.exp = utf8_encode(8226)
        /\ Remapped = (128..159) \ Unmapped
        /\ Cardinality(Remapped) = 27

\* &#149 (0x95) gives the bullet.
C6_Witness ==
    /\ LastIsNumeric
    /\ NumRun(Last.start) = <<49, 52, 57>>
    /\ NumValue(Last.start) = 149
    /\ Last.exp = <<226, 128, 162>>

----------------------------------------------------------------------------
(* C7 *)

\* A reference that matches nothing: a named candidate too short or with no
\* matching key, a numeric reference with an empty digit run.
UnmatchedNamed(a) ==
    LET c == CandidateAt(a) IN
    \/ Len(c) < ENTITY_MIN_LENGTH
    \/ context = "General" /\ KeyPrefixes(c) = {}
    \/ context = "Attribute" /\ c \notin ENTITY_KEYS

UnmatchedStep(st) ==
    \/ st.kind = "byte"
    \/ st.kind = "named" /\ UnmatchedNamed(st.start)
    \/ st.kind = "numeric" /\ Len(NumRun(st.start)) = 0

\* C7: a reference that matches nothing contributes exactly its input
\* bytes, in both contexts, and an input all of whose references match
\* nothing is returned as it is.
C7_Verbatim ==
    /\ (LastIsNamed /\ UnmatchedNamed(Last.start)) =>
          /\ Last.exp = SubSeq(escaped, Last.start, Last.end - 1)
          /\ Last.exp = CandidateAt(Last.start)
    /\ (LastIsNumeric /\ Len(NumRun(Last.start)) = 0) =>
          /\ Last.exp = NumLiteral(Last.start)
          /\ Last.exp = SubSeq(escaped, Last.start, Last.end - 1)
    /\ (\A i \in 1..Len(trace) : UnmatchedStep(trace[i])) =>
          /\ buffer = SubSeq(escaped, 1, pos - 1)
          /\ pc = "returned" => result = escaped

\* &#x; at the end of an input that is returned as it is.
C7_Witness ==
    /\ pc = "returned"
    /\ LastIsNumeric
    /\ NumIsHex(Last.start)
    /\ Len(NumRun(Last.start)) = 0
    /\ Last.exp = <<38, 35, 120, 59>>
    /\ result = escaped

----------------------------------------------------------------------------
(* C8 *)

\* C8: what a numeric reference with a non-empty digit run contributes is a
\* function of the value of the run alone, whatever the base, the case of
\* the x and of the digits, the leading zeros and the trailing ;; for a
\* value in 1..=0x10FFFF that is no surrogate and not in the legacy range
\* it is the UTF-8 encoding of the value.
C8_ValueOnly ==
    (LastIsNumeric /\ Len(NumRun(Last.start)) > 0) =>
        LET v == NumValue(Last.start) IN
        /\ Last.end = Last.start + Len(NumLiteral(Last.start))
        /\ v >= TooLarge => Last.exp = ReplacementBytes
        /\ v < TooLarge => Last.exp = correct_numeric_entity(U32(v)).bytes
        /\ (v \in 1..1114111 /\ v \notin 55296..57343 /\ v \notin Remapped)
              => Last.exp = utf8_encode(v)

\* &#X07A followed by z: upper-case X and digit, a leading zero, no ;.
C8_Witness ==
    /\ LastIsNumeric
    /\ Last.end <= Len(escaped)
    /\ SubSeq(escaped, Last.start, Last.end) = <<38, 35, 88, 48, 55, 65, 122>>
    /\ NumValue(Last.start) = 122
    /\ Last.exp = <<122>>

----------------------------------------------------------------------------
(* C9 *)

\* Where the consume-while helper of a step started, and the bytes it takes.
RunStartOf(st) == IF st.kind = "named" THEN st.start + 1 ELSE NumRunStart(st.start)
RunClassOf(st) ==
    IF st.kind = "named" THEN AlnumBytes
    ELSE IF NumIsHex(st.start) THEN HexBytes ELSE DecBytes

\* C9: decoding is one forward pass that ends: every iteration of the driver
\* consumes at least one byte, the iterations consume adjoining stretches of
\* the input from its first byte on, every consume-while helper stops at the
\* first byte it does not accept or at the end of the input, and the scan of
\* n bytes ends with the cursor at n after at most n iterations.
C9_SinglePass ==
    /\ pos \in 1..(Len(escaped) + 1)
    /\ Len(trace) <= Len(escaped)
    /\ Len(trace) < pos
    /\ HasLast => trace[1].start = 1 /\ Last.end = pos
    /\ \A i \in 1..Len(trace) :
          /\ trace[i].end > trace[i].start
          /\ i > 1 => trace[i].start = trace[i - 1].end
          /\ trace[i].cand = SubSeq(escaped, trace[i].start, trace[i].end - 1)
    /\ (HasLast /\ Last.kind # "byte" /\ RunStartOf(Last) <= Len(escaped) + 1) =>
          /\ Last.runEnd = RunEnd(RunStartOf(Last), RunClassOf(Last))
          /\ Last.end \in {Last.runEnd, Last.runEnd + 1}
    /\ pc # "loop" => pos = Len(escaped) + 1

\* A returned call in which a decimal run stopped in front of a byte that is
\* neither a digit nor a ;.
C9_Witness ==
    /\ pc = "returned"
    /\ Len(trace) < Len(escaped)
    /\ \E i \in 1..Len(trace) :
          /\ trace[i].kind = "numeric"
          /\ ~NumIsHex(trace[i].start)
          /\ Len(trace[i].digits) > 0
          /\ trace[i].runEnd <= Len(escaped)
          /\ escaped[trace[i].runEnd] = 122

----------------------------------------------------------------------------
(* C10 *)

\* C10: no matcher consumes an &: every & of the input is taken by the
\* driver and starts its own reference, which is decoded as it would be at
\* the start of an input.
C10_AmpersandStarts ==
    /\ \A j \in 1..(pos - 1) :
          escaped[j] = AMP <=>
              \E i \in 1..Len(trace) :
                  trace[i].start = j /\ trace[i].kind # "byte"
    /\ (HasLast /\ Last.kind # "byte") =>
          /\ \A j \in (Last.start + 1)..(Last.end - 1) : escaped[j] # AMP
          /\ Last.exp =
                match_entity(SubSeq(escaped, Last.start + 1, Len(escaped)), 1,
                             context).out
    /\ (pos <= Len(escaped) /\ escaped[pos] = AMP) => pc = "loop"

\* &lt&times: an expanded reference right after another expanded reference.
C10_Witness ==
    /\ HasPrev
    /\ Prev.kind = "named"
    /\ Prev.exp = <<60>>
    /\ Last.kind = "named"
    /\ Last.start = Prev.end
    /\ Last.exp = <<195, 151>>

====
